---- MODULE Spec2Model ----
(***************************************************************************)
(* Model of awx_collection/plugins/modules/tower_inventory.py: main()      *)
(* reconciles one declared inventory against the Tower control plane.      *)
(* main() is followed statement by statement; the TowerAPIModule helpers   *)
(* it calls (resolve_name_to_id, get_one, copy_item, delete_if_needed,     *)
(* create_or_update_if_needed) and the control plane behind them are not   *)
(* part of the module file and follow the written specification.           *)
(***************************************************************************)
EXTENDS Integers, Sequences, FiniteSets, TLC

VARIABLES
    params,              \* module.params of the current run
    pc,                  \* position of main(): the next statement to run
    org_id,              \* local org_id (0 before it is resolved)
    inventory,           \* local inventory (NoItem is Python's None)
    inventory_fields,    \* local inventory_fields mapping
    association_fields,  \* local association_fields mapping
    calls,               \* API calls issued so far by the current run
    remote,              \* inventories held by the control plane
    error,               \* why the current run failed ("" while it has not)
    before,              \* remote as it was when the current run began
    runs                 \* runs started so far; a run after the first
                         \* repeats the task of the run before it

vars == <<params, pc, org_id, inventory, inventory_fields,
          association_fields, calls, remote, error, before, runs>>

----------------------------------------------------------------------------
(* Bounds *)

\* number of inventory identifiers the control plane can hand out
MaxInv == 4

\* number of times the same task is run in a row
MaxRuns == 2

----------------------------------------------------------------------------
(* Python values *)

\* an optional parameter is None or holds one value
None == {}

Some(v) == {v}

Val(o) == CHOOSE v \in o : TRUE

\* the local variable `inventory` when it is None
NoItem == [id |-> 0]

EmptyDict == [k \in {} |-> 0]

\* Python truthiness of an optional string: None and '' are false
Truthy(o) == o # None /\ Val(o) # ""

\* json.dumps of a flat dict given as a sequence of <<key, value>> pairs
RECURSIVE dumps_items(_)
dumps_items(d) ==
    IF d = <<>> THEN ""
    ELSE "\"" \o d[1][1] \o "\": \"" \o d[1][2] \o "\""
         \o (IF Len(d) > 1 THEN ", " ELSE "") \o dumps_items(Tail(d))

json_dumps(d) == "{" \o dumps_items(d) \o "}"

----------------------------------------------------------------------------
(* The control plane *)

\* names known to the control plane, per collection
Directory ==
    [organizations   |-> [Bar |-> 1, Baz |-> 2, Ops |-> 3],
     credentials     |-> [cred1 |-> 1],
     instance_groups |-> [g1 |-> 1, g2 |-> 2, g3 |-> 3]]

\* resolve_name_to_id: the identifier, or 0 when the name has no match
resolve_name_to_id(collection, name) ==
    IF name \in DOMAIN Directory[collection]
    THEN Directory[collection][name] ELSE 0

\* fields of an inventory that create and update can write
ItemFieldNames ==
    {"name", "organization", "kind", "host_filter", "description",
     "variables", "insights_credential"}

\* the template inventory that copy_from can name
Template ==
    [id |-> 1, name |-> "Tmpl", organization |-> 3, kind |-> "",
     host_filter |-> None, description |-> "A", variables |-> "",
     insights_credential |-> 0, related_instance_groups |-> {1, 2}]

\* an inventory of the same name in another organization
Namesake ==
    [id |-> 2, name |-> "Foo", organization |-> 2, kind |-> "",
     host_filter |-> None, description |-> "", variables |-> "",
     insights_credential |-> 0, related_instance_groups |-> {1}]

\* identifier given to the next inventory created
FreeId ==
    LET used == {r.id : r \in remote}
        free == (1..MaxInv) \ used
    IN  IF free = {} THEN 0
        ELSE CHOOSE i \in free : \A j \in free : i <= j

\* an inventory is looked up by its exact name or by its identifier
Matches(r, name_or_id) ==
    r.name = name_or_id \/ ToString(r.id) = name_or_id

\* get_one('inventories', name_or_id, data): the match or None (no two
\* inventories here match one name within one filter)
get_one(name_or_id, data) ==
    LET found == {r \in remote :
                     /\ Matches(r, name_or_id)
                     /\ \A k \in DOMAIN data : r[k] = data[k]}
    IN  IF Cardinality(found) = 1 THEN CHOOSE r \in found : TRUE
        ELSE NoItem

\* the inventory the control plane builds for a create request
NewItem(id, fields) ==
    LET get(k, default) == IF k \in DOMAIN fields THEN fields[k] ELSE default
    IN  [id |-> id,
         name |-> get("name", ""),
         organization |-> get("organization", 0),
         kind |-> get("kind", ""),
         host_filter |-> get("host_filter", None),
         description |-> get("description", ""),
         variables |-> get("variables", ""),
         insights_credential |-> get("insights_credential", 0),
         related_instance_groups |-> {}]

\* the inventory after an update request carrying `fields`
PatchItem(item, fields) ==
    [k \in DOMAIN item |->
        IF k \in ItemFieldNames /\ k \in DOMAIN fields
        THEN fields[k] ELSE item[k]]

\* the duplicate the control plane makes of `source` under a new name
CopyOf(source, id, new_name) ==
    [source EXCEPT !.id = id, !.name = new_name]

\* a name is unique within its organization
NameTaken(name, org) ==
    \E r \in remote : r.name = name /\ r.organization = org

----------------------------------------------------------------------------
(* Parameters of a run *)

\* the name of the inventory, or the identifier of an existing one
NameValues == {"Foo", "3"}

OrganizationNames == {"Bar", "Baz", "NoOrg"}

CopyFromValues == {None, Some("Tmpl")}

DescriptionValues == {None, Some("B")}

VariablesValues == {None, Some(<< <<"a", "1">> >>)}

HostFilterValues == {None, Some("hf")}

CredentialValues == {None, Some("cred1"), Some("nocred")}

InstanceGroupValues ==
    {None, Some(<<>>), Some(<<"g1", "g2">>), Some(<<"g2", "g3">>),
     Some(<<"g1", "nog">>)}

\* argument_spec: the parameter combinations a caller can pass
ParamSpace ==
    [name : NameValues,
     copy_from : CopyFromValues,
     description : DescriptionValues,
     organization : OrganizationNames,
     variables : VariablesValues,
     kind : {"", "smart"},
     host_filter : HostFilterValues,
     instance_groups : InstanceGroupValues,
     insights_credential : CredentialValues,
     state : {"present", "absent"}]

----------------------------------------------------------------------------
(* Helpers of TowerAPIModule *)

\* the resolve_name_to_id calls made for `names`, in order, ending with the
\* first one that finds no match
RECURSIVE resolve_calls(_, _)
resolve_calls(collection, names) ==
    IF names = <<>> THEN <<>>
    ELSE LET id == resolve_name_to_id(collection, Head(names))
             call == [op |-> "resolve", collection |-> collection,
                      name |-> Head(names), id |-> id, ok |-> id # 0]
         IN  IF id = 0 THEN <<call>>
             ELSE <<call>> \o resolve_calls(collection, Tail(names))

\* the identifiers the names resolve to, in order
resolve_ids(collection, names) ==
    [i \in 1..Len(names) |-> resolve_name_to_id(collection, names[i])]

all_resolved(collection, names) ==
    \A i \in 1..Len(names) : resolve_name_to_id(collection, names[i]) # 0

\* get_item_name(item)
get_item_name(item) == item.name

\* copy_item(existing_item, copy_from, new_name): what it returns, what it
\* calls and what it leaves on the control plane; `accepted` is whether the
\* control plane carries the copy request out
copy_item(existing_item, copy_from_name, new_item_name, accepted) ==
    LET source == get_one(copy_from_name, EmptyDict)
        lookup == [op |-> "get_one", name |-> copy_from_name,
                   organization |-> 0, id |-> source.id,
                   ok |-> source # NoItem]
        id == FreeId
        copy == [op |-> "copy", id |-> source.id, name |-> new_item_name,
                 ok |-> TRUE]
    IN  IF existing_item # NoItem
        THEN [error |-> "collision", item |-> existing_item,
              calls |-> <<>>, remote |-> remote]
        ELSE IF source = NoItem
        THEN [error |-> "not_found", item |-> existing_item,
              calls |-> <<lookup>>, remote |-> remote]
        ELSE IF \/ ~accepted
                \/ id = 0
                \/ NameTaken(new_item_name, source.organization)
        THEN [error |-> "request_failed", item |-> existing_item,
              calls |-> <<lookup, [copy EXCEPT !.ok = FALSE]>>,
              remote |-> remote]
        ELSE [error |-> "", item |-> CopyOf(source, id, new_item_name),
              calls |-> <<lookup, copy>>,
              remote |-> remote \cup {CopyOf(source, id, new_item_name)}]

\* create_or_update_if_needed sends at most a create or an update, a
\* disassociation and an association
MaxRequests == 3

\* fields of new_item whose value differs from the existing item's
changed_fields(existing_item, new_item) ==
    {k \in DOMAIN new_item :
        \/ k \notin DOMAIN existing_item
        \/ existing_item[k] # new_item[k]}

\* a mapping cut down to the keys in `keys`
restrict(mapping, keys) == [k \in keys |-> mapping[k]]

\* the identifiers an association category asks for
desired_set(ids) == {ids[i] : i \in 1..Len(ids)}

\* association calls that bring `current` to the declared identifiers
association_calls(id, current, associations) ==
    IF "instance_groups" \notin DOMAIN associations THEN <<>>
    ELSE LET desired == desired_set(associations["instance_groups"])
             remove == current \ desired
             add == desired \ current
         IN  (IF remove = {} THEN <<>>
              ELSE <<[op |-> "disassociate", id |-> id, ids |-> remove,
                      ok |-> TRUE]>>)
             \o
             (IF add = {} THEN <<>>
              ELSE <<[op |-> "associate", id |-> id, ids |-> add,
                      ok |-> TRUE]>>)

\* the association set after the sync
associated(current, associations) ==
    IF "instance_groups" \notin DOMAIN associations THEN current
    ELSE desired_set(associations["instance_groups"])

\* the control plane after it has carried out the requests `cs`
RECURSIVE carried_out(_, _)
carried_out(rs, cs) ==
    IF cs = <<>> THEN rs
    ELSE LET c == Head(cs)
             others == {r \in rs : r.id # c.id}
             item == CHOOSE r \in rs : r.id = c.id
             next ==
                 IF c.op = "create"
                 THEN rs \cup {NewItem(c.id, c.fields)}
                 ELSE IF c.op = "update"
                 THEN others \cup {PatchItem(item, c.fields)}
                 ELSE IF c.op = "disassociate"
                 THEN others \cup
                      {[item EXCEPT !.related_instance_groups = @ \ c.ids]}
                 ELSE others \cup
                      {[item EXCEPT !.related_instance_groups = @ \cup c.ids]}
         IN  carried_out(next, Tail(cs))

\* a run of requests of which the control plane rejects the one at
\* position `rejected`: the requests before it are carried out, none after
\* it is sent
cut_short(planned, rejected) ==
    [error |-> "request_failed",
     calls |-> SubSeq(planned, 1, rejected - 1)
               \o <<[planned[rejected] EXCEPT !.ok = FALSE]>>,
     remote |-> carried_out(remote, SubSeq(planned, 1, rejected - 1))]

\* create_or_update_if_needed(existing_item, new_item, associations);
\* `rejected` is the position of the request the control plane rejects,
\* 0 when it carries them all out
create_or_update_if_needed(existing_item, new_item, associations, rejected) ==
    IF existing_item = NoItem
    THEN LET id == FreeId
             create == [op |-> "create", id |-> id, fields |-> new_item,
                        ok |-> TRUE]
             made == NewItem(id, new_item)
             planned == <<create>> \o association_calls(id, {}, associations)
         IN  IF id = 0 \/ NameTaken(made.name, made.organization)
             THEN cut_short(planned, 1)
             ELSE IF rejected \in 1..Len(planned)
             THEN cut_short(planned, rejected)
             ELSE [error |-> "",
                   calls |-> planned,
                   remote |-> remote \cup
                       {[made EXCEPT !.related_instance_groups =
                                         associated({}, associations)]}]
    ELSE LET changed == changed_fields(existing_item, new_item)
             update == [op |-> "update", id |-> existing_item.id,
                        fields |-> restrict(new_item, changed), ok |-> TRUE]
             current == existing_item.related_instance_groups
             patched == PatchItem(existing_item, restrict(new_item, changed))
             planned == (IF changed = {} THEN <<>> ELSE <<update>>)
                        \o association_calls(existing_item.id, current,
                                             associations)
         IN  IF rejected \in 1..Len(planned)
             THEN cut_short(planned, rejected)
             ELSE [error |-> "",
                   calls |-> planned,
                   remote |-> {r \in remote : r.id # existing_item.id} \cup
                       {[patched EXCEPT !.related_instance_groups =
                                            associated(current, associations)]}]

----------------------------------------------------------------------------
(* main() *)

\* the statement main() runs after the lookup and the optional copy
AfterCopy == IF params.state = "absent" THEN "delete_if_needed"
             ELSE "build_fields"

Fail(msg) == pc' = "failed" /\ error' = msg

\* a run starts: module = TowerAPIModule(...), parameters extracted
Begin(p) ==
    /\ pc = "idle"
    /\ params' = p
    /\ pc' = "resolve_org"
    /\ runs' = 1
    /\ UNCHANGED <<org_id, inventory, inventory_fields, association_fields,
                   calls, remote, error, before>>

\* the same task is run again right after a run that succeeded
Rerun ==
    /\ pc = "done"
    /\ runs < MaxRuns
    /\ pc' = "resolve_org"
    /\ org_id' = 0
    /\ inventory' = NoItem
    /\ inventory_fields' = EmptyDict
    /\ association_fields' = EmptyDict
    /\ calls' = <<>>
    /\ before' = remote
    /\ runs' = runs + 1
    /\ UNCHANGED <<params, remote, error>>

\* ResolveOrg going on to the lookup when the organization has no match
ResolveOrg_continuing ==
    /\ pc = "resolve_org"
    /\ calls' = calls \o resolve_calls("organizations", <<params.organization>>)
    /\ org_id' = resolve_name_to_id("organizations", params.organization)
    /\ pc' = "get_one"
    /\ UNCHANGED <<params, inventory, inventory_fields, association_fields,
                   remote, error, before, runs>>

\* org_id = module.resolve_name_to_id('organizations', organization)
ResolveOrg ==
    /\ pc = "resolve_org"
    /\ LET cs == resolve_calls("organizations", <<params.organization>>)
           id == resolve_name_to_id("organizations", params.organization)
       IN  /\ calls' = calls \o cs
           /\ IF id = 0
              THEN Fail("not_found") /\ UNCHANGED org_id
              ELSE /\ org_id' = id
                   /\ pc' = "get_one"
                   /\ UNCHANGED error
    /\ UNCHANGED <<params, inventory, inventory_fields, association_fields,
                   remote, before, runs>>

\* GetOne looking the name up in every organization
GetOne_unscoped ==
    /\ pc = "get_one"
    /\ LET found == get_one(params.name, EmptyDict)
       IN  /\ inventory' = found
           /\ calls' = Append(calls,
                  [op |-> "get_one", name |-> params.name,
                   organization |-> org_id, id |-> found.id,
                   ok |-> TRUE])
    /\ pc' = IF Truthy(params.copy_from) THEN "copy_item" ELSE AfterCopy
    /\ UNCHANGED <<params, org_id, inventory_fields, association_fields,
                   remote, error, before, runs>>

\* inventory = module.get_one('inventories', name_or_id=name,
\*                            data={'organization': org_id})
GetOne ==
    /\ pc = "get_one"
    /\ LET found == get_one(params.name, [organization |-> org_id])
       IN  /\ inventory' = found
           /\ calls' = Append(calls,
                  [op |-> "get_one", name |-> params.name,
                   organization |-> org_id, id |-> found.id,
                   ok |-> TRUE])
    /\ pc' = IF Truthy(params.copy_from) THEN "copy_item" ELSE AfterCopy
    /\ UNCHANGED <<params, org_id, inventory_fields, association_fields,
                   remote, error, before, runs>>

\* CopyItem handing copy_item no existing item, whatever the lookup found
CopyItem_ignoring_lookup ==
    /\ pc = "copy_item"
    /\ \E accepted \in BOOLEAN :
           LET r == copy_item(NoItem, Val(params.copy_from), params.name,
                              accepted)
           IN  /\ calls' = calls \o r.calls
               /\ remote' = r.remote
               /\ inventory' = r.item
               /\ IF r.error # "" THEN Fail(r.error)
                  ELSE pc' = AfterCopy /\ UNCHANGED error
    /\ UNCHANGED <<params, org_id, inventory_fields, association_fields,
                   before, runs>>

\* if copy_from: inventory = module.copy_item(inventory, copy_from, name)
CopyItem ==
    /\ pc = "copy_item"
    /\ \E accepted \in BOOLEAN :
           LET r == copy_item(inventory, Val(params.copy_from), params.name,
                              accepted)
           IN  /\ calls' = calls \o r.calls
               /\ remote' = r.remote
               /\ inventory' = r.item
               /\ IF r.error # "" THEN Fail(r.error)
                  ELSE pc' = AfterCopy /\ UNCHANGED error
    /\ UNCHANGED <<params, org_id, inventory_fields, association_fields,
                   before, runs>>

\* DeleteIfNeeded returning to main() instead of exiting
DeleteIfNeeded_returning ==
    /\ pc = "delete_if_needed"
    /\ IF inventory = NoItem
       THEN UNCHANGED <<calls, remote>>
       ELSE /\ calls' = Append(calls, [op |-> "delete", id |-> inventory.id,
                                       ok |-> TRUE])
            /\ remote' = {r \in remote : r.id # inventory.id}
    /\ pc' = "build_fields"
    /\ UNCHANGED <<params, org_id, inventory, inventory_fields,
                   association_fields, error, before, runs>>

\* if state == 'absent': module.delete_if_needed(inventory), which exits:
\* with success when there is nothing to delete or the control plane
\* deleted the inventory, with a failure when it rejected the request
DeleteIfNeeded ==
    /\ pc = "delete_if_needed"
    /\ \E accepted \in BOOLEAN :
           LET delete == [op |-> "delete", id |-> inventory.id,
                          ok |-> accepted]
           IN  IF inventory = NoItem
               THEN pc' = "done" /\ UNCHANGED <<calls, remote, error>>
               ELSE /\ calls' = Append(calls, delete)
                    /\ IF accepted
                       THEN /\ remote' = {r \in remote : r.id # inventory.id}
                            /\ pc' = "done"
                            /\ UNCHANGED error
                       ELSE Fail("request_failed") /\ UNCHANGED remote
    /\ UNCHANGED <<params, org_id, inventory, inventory_fields,
                   association_fields, before, runs>>

\* InventoryFields taking the declared name whatever the inventory is called
InventoryFields_declared_name(p, item, org) ==
    [name |-> p.name,
     organization |-> org,
     kind |-> p.kind,
     host_filter |-> p.host_filter]
    @@ (IF p.description # None
        THEN "description" :> Val(p.description) ELSE EmptyDict)
    @@ (IF p.variables # None
        THEN "variables" :> json_dumps(Val(p.variables)) ELSE EmptyDict)
    @@ (IF p.insights_credential # None
        THEN "insights_credential" :>
                 resolve_name_to_id("credentials", Val(p.insights_credential))
        ELSE EmptyDict)
    @@ (IF p.instance_groups # None
        THEN "instance_groups" :>
                 resolve_ids("instance_groups", Val(p.instance_groups))
        ELSE EmptyDict)

\* InventoryFields leaving the declared description out
InventoryFields_without_description(p, item, org) ==
    [name |-> IF item # NoItem THEN get_item_name(item) ELSE p.name,
     organization |-> org,
     kind |-> p.kind,
     host_filter |-> p.host_filter]
    @@ (IF p.variables # None
        THEN "variables" :> json_dumps(Val(p.variables)) ELSE EmptyDict)
    @@ (IF p.insights_credential # None
        THEN "insights_credential" :>
                 resolve_name_to_id("credentials", Val(p.insights_credential))
        ELSE EmptyDict)
    @@ (IF p.instance_groups # None
        THEN "instance_groups" :>
                 resolve_ids("instance_groups", Val(p.instance_groups))
        ELSE EmptyDict)

\* what the statements building inventory_fields produce
InventoryFields(p, item, org) ==
    [name |-> IF item # NoItem THEN get_item_name(item) ELSE p.name,
     organization |-> org,
     kind |-> p.kind,
     host_filter |-> p.host_filter]
    @@ (IF p.description # None
        THEN "description" :> Val(p.description) ELSE EmptyDict)
    @@ (IF p.variables # None
        THEN "variables" :> json_dumps(Val(p.variables)) ELSE EmptyDict)
    @@ (IF p.insights_credential # None
        THEN "insights_credential" :>
                 resolve_name_to_id("credentials", Val(p.insights_credential))
        ELSE EmptyDict)
    @@ (IF p.instance_groups # None
        THEN "instance_groups" :>
                 resolve_ids("instance_groups", Val(p.instance_groups))
        ELSE EmptyDict)

\* BuildFields going on when an instance group has no match
BuildFields_unchecked_groups ==
    /\ pc = "build_fields"
    /\ LET cred == IF params.insights_credential # None
                   THEN <<Val(params.insights_credential)>> ELSE <<>>
           groups == IF params.instance_groups # None
                     THEN Val(params.instance_groups) ELSE <<>>
           cred_ok == all_resolved("credentials", cred)
       IN  /\ calls' = calls \o resolve_calls("credentials", cred)
                       \o (IF cred_ok
                           THEN resolve_calls("instance_groups", groups)
                           ELSE <<>>)
           /\ IF cred_ok
              THEN /\ inventory_fields' =
                          InventoryFields(params, inventory, org_id)
                   /\ pc' = "build_associations"
                   /\ UNCHANGED error
              ELSE Fail("not_found") /\ UNCHANGED inventory_fields
    /\ UNCHANGED <<params, org_id, inventory, association_fields, remote,
                   before, runs>>

\* BuildFields taking the credential name as it is, without resolving it
BuildFields_unresolved_credential ==
    /\ pc = "build_fields"
    /\ LET groups == IF params.instance_groups # None
                     THEN Val(params.instance_groups) ELSE <<>>
       IN  /\ calls' = calls \o resolve_calls("instance_groups", groups)
           /\ IF all_resolved("instance_groups", groups)
              THEN /\ inventory_fields' =
                          InventoryFields(params, inventory, org_id)
                   /\ pc' = "build_associations"
                   /\ UNCHANGED error
              ELSE Fail("not_found") /\ UNCHANGED inventory_fields
    /\ UNCHANGED <<params, org_id, inventory, association_fields, remote,
                   before, runs>>

\* inventory_fields = {...}: the credential and each instance group are
\* resolved on the way, and the first name without a match fails the run
BuildFields ==
    /\ pc = "build_fields"
    /\ LET cred == IF params.insights_credential # None
                   THEN <<Val(params.insights_credential)>> ELSE <<>>
           groups == IF params.instance_groups # None
                     THEN Val(params.instance_groups) ELSE <<>>
           cred_ok == all_resolved("credentials", cred)
           ok == cred_ok /\ all_resolved("instance_groups", groups)
       IN  /\ calls' = calls \o resolve_calls("credentials", cred)
                       \o (IF cred_ok
                           THEN resolve_calls("instance_groups", groups)
                           ELSE <<>>)
           /\ IF ok
              THEN /\ inventory_fields' =
                          InventoryFields(params, inventory, org_id)
                   /\ pc' = "build_associations"
                   /\ UNCHANGED error
              ELSE Fail("not_found") /\ UNCHANGED inventory_fields
    /\ UNCHANGED <<params, org_id, inventory, association_fields, remote,
                   before, runs>>

\* AssociationFields leaving out the last declared instance group
AssociationFields_dropping_last(p) ==
    IF p.instance_groups # None
    THEN "instance_groups" :>
             resolve_ids("instance_groups",
                         SubSeq(Val(p.instance_groups), 1,
                                Len(Val(p.instance_groups)) - 1))
    ELSE EmptyDict

\* AssociationFields testing the list for truth, not for None
AssociationFields_truthy(p) ==
    IF p.instance_groups # None /\ Val(p.instance_groups) # <<>>
    THEN "instance_groups" :>
             resolve_ids("instance_groups", Val(p.instance_groups))
    ELSE EmptyDict

\* what the statements building association_fields produce
AssociationFields(p) ==
    IF p.instance_groups # None
    THEN "instance_groups" :>
             resolve_ids("instance_groups", Val(p.instance_groups))
    ELSE EmptyDict

\* association_fields = {}: the instance groups are resolved once more
BuildAssociations ==
    /\ pc = "build_associations"
    /\ LET groups == IF params.instance_groups # None
                     THEN Val(params.instance_groups) ELSE <<>>
       IN  /\ calls' = calls \o resolve_calls("instance_groups", groups)
           /\ IF all_resolved("instance_groups", groups)
              THEN /\ association_fields' = AssociationFields(params)
                   /\ pc' = "check_kind"
                   /\ UNCHANGED error
              ELSE Fail("not_found") /\ UNCHANGED association_fields
    /\ UNCHANGED <<params, org_id, inventory, inventory_fields, remote,
                   before, runs>>

\* KindConflict with the two kinds the wrong way round
KindConflict_reversed ==
    /\ inventory # NoItem
    /\ inventory.kind = "smart"
    /\ inventory_fields["kind"] = ""

\* the condition under which main() refuses the run
KindConflict ==
    /\ inventory # NoItem
    /\ inventory.kind = ""
    /\ inventory_fields["kind"] = "smart"

\* if inventory and inventory['kind'] == '' and ... == 'smart': fail_json
CheckKind ==
    /\ pc = "check_kind"
    /\ IF KindConflict
       THEN Fail("invalid_transition")
       ELSE pc' = "create_or_update" /\ UNCHANGED error
    /\ UNCHANGED <<params, org_id, inventory, inventory_fields,
                   association_fields, calls, remote, before, runs>>

\* module.create_or_update_if_needed(inventory, inventory_fields,
\*                                   associations=association_fields)
CreateOrUpdate ==
    /\ pc = "create_or_update"
    /\ \E rejected \in 0..MaxRequests :
           LET r == create_or_update_if_needed(inventory, inventory_fields,
                                               association_fields, rejected)
           IN  /\ calls' = calls \o r.calls
               /\ remote' = r.remote
               /\ IF r.error # "" THEN Fail(r.error)
                  ELSE pc' = "done" /\ UNCHANGED error
    /\ UNCHANGED <<params, org_id, inventory, inventory_fields,
                   association_fields, before, runs>>

----------------------------------------------------------------------------
(* Initial state: the control plane holds the template, the namesake and   *)
(* possibly the target inventory, as an earlier present run created it.    *)

\* module.params before a run has read them: every parameter at its default
NoParams ==
    [name |-> "Foo", copy_from |-> None, description |-> None,
     organization |-> "Bar", variables |-> None, kind |-> "",
     host_filter |-> None, instance_groups |-> None,
     insights_credential |-> None, state |-> "present"]

\* the parameters of the earlier runs: every optional field left out, or
\* every one supplied, for either kind
SetupParams ==
    {p \in ParamSpace :
        /\ p.name = "Foo"
        /\ p.organization = "Bar" /\ p.state = "present"
        /\ p.copy_from = None
        /\ \/ /\ p.description = None /\ p.variables = None
              /\ p.host_filter = None /\ p.insights_credential = None
              /\ p.instance_groups = None
           \/ /\ p.description # None /\ p.variables # None
              /\ p.host_filter # None
              /\ p.insights_credential = Some("cred1")
              /\ p.instance_groups = Some(<<"g1", "g2">>)}

\* the inventory a present run with parameters p creates
Created(p) ==
    [NewItem(3, InventoryFields(p, NoItem, 1)) EXCEPT
        !.related_instance_groups = associated({}, AssociationFields(p))]

InitialRemotes ==
    {{Template, Namesake}}
    \cup {{Template, Namesake, Created(p)} : p \in SetupParams}

Init ==
    /\ params = NoParams
    /\ pc = "idle"
    /\ org_id = 0
    /\ inventory = NoItem
    /\ inventory_fields = EmptyDict
    /\ association_fields = EmptyDict
    /\ calls = <<>>
    /\ remote \in InitialRemotes
    /\ error = ""
    /\ before = remote
    /\ runs = 0

Next ==
    \/ pc = "idle" /\ \E p \in ParamSpace : Begin(p)
    \/ Rerun
    \/ ResolveOrg
    \/ GetOne
    \/ CopyItem
    \/ DeleteIfNeeded
    \/ BuildFields
    \/ BuildAssociations
    \/ CheckKind
    \/ CreateOrUpdate

Spec == Init /\ [][Next]_vars

\* the statements of main(): one synchronous thread runs them, each a
\* blocking exchange that returns, so a run that has started keeps going
Statement ==
    \/ ResolveOrg
    \/ GetOne
    \/ CopyItem
    \/ DeleteIfNeeded
    \/ BuildFields
    \/ BuildAssociations
    \/ CheckKind
    \/ CreateOrUpdate

FairSpec == Spec /\ WF_vars(Statement)

----------------------------------------------------------------------------
(* Vocabulary of the properties *)

Finished == pc \in {"done", "failed"}

IsMutating(c) ==
    c.op \in {"copy", "create", "update", "delete", "associate",
              "disassociate"}

IsCopy(c) == c.op = "copy"

IsWrite(c) == c.op \in {"create", "update", "delete"}

IsCreate(c) == c.op = "create"

IsDelete(c) == c.op = "delete"

\* the mutating calls of the current run, in order
Mutations == SelectSeq(calls, IsMutating)

\* the control plane has carried out every request the run has sent
Accepted == \A i \in 1..Len(calls) : calls[i].op = "resolve" \/ calls[i].ok

\* the inventories in rs that the declared name and organization denote
Target(rs) ==
    {r \in rs :
        /\ Matches(r, params.name)
        /\ r.organization =
               resolve_name_to_id("organizations", params.organization)}

\* the optional fields of an inventory
OptionalFields ==
    {"host_filter", "variables", "insights_credential", "description"}

\* identifiers of the declared instance groups
DeclaredGroupIds ==
    {resolve_name_to_id("instance_groups", Val(params.instance_groups)[i]) :
        i \in 1..Len(Val(params.instance_groups))}

\* association set of the resource the run reconciles
CurrentGroups ==
    IF inventory = NoItem THEN {} ELSE inventory.related_instance_groups

\* identifiers the run asked to link, and to unlink
Added ==
    UNION {calls[i].ids :
              i \in {j \in 1..Len(calls) : calls[j].op = "associate"}}

Removed ==
    UNION {calls[i].ids :
              i \in {j \in 1..Len(calls) : calls[j].op = "disassociate"}}

----------------------------------------------------------------------------
(* Properties *)

\* C1: idempotence. A run that repeats the task of the successful run
\* before it issues no copy, create, update, delete or association call
\* and leaves the control plane as that run left it.
C1_Idempotent ==
    (runs >= 2 /\ Accepted) => Mutations = <<>> /\ remote = before

C3_PartialFieldsPreserved ==
    (pc = "done" /\ params.state = "present")
    => \A b \in Target(before) : \A r \in Target(remote) :
           \A f \in OptionalFields :
               (params[f] = None /\ b.id = r.id) => r[f] = b[f]

\* C4, as claimed: a run issues at most one of copy, create, update, delete.
C4_AtMostOneMutation ==
    Accepted =>
        Len(SelectSeq(calls, IsCopy)) + Len(SelectSeq(calls, IsWrite)) <= 1

\* C4, amended: a run issues at most one copy and at most one of create,
\* update, delete, and the copy comes before the other.
C4_OneCopyThenOneWrite ==
    /\ Len(SelectSeq(calls, IsCopy)) <= 1
    /\ Len(SelectSeq(calls, IsWrite)) <= 1
    /\ \A i, j \in 1..Len(calls) :
           (IsCopy(calls[i]) /\ IsWrite(calls[j])) => i < j

C4_Witness ==
    /\ pc = "done"
    /\ Len(SelectSeq(calls, IsCopy)) = 1
    /\ \E i \in 1..Len(calls) : calls[i].op = "update"

\* C5: absence short-circuit. With state absent, once the scoped lookup of
\* the target has returned null, the run makes no further remote call.
C5_AbsentShortCircuit ==
    (/\ runs >= 1
     /\ Accepted
     /\ params.state = "absent"
     /\ Len(calls) >= 2
     /\ calls[2].op = "get_one"
     /\ calls[2].id = 0)
    => Len(calls) = 2

\* C6: deletion is terminal. A finished run with state absent on an existing
\* inventory i has issued exactly one delete, Delete(i), as its last call,
\* and no create, update or association call.
C6_DeletionTerminal ==
    (Finished /\ params.state = "absent" /\ Target(before) # {})
    => /\ Len(SelectSeq(calls, IsDelete)) = 1
       /\ calls[Len(calls)].op = "delete"
       /\ \E b \in Target(before) : calls[Len(calls)].id = b.id
       /\ Mutations = <<calls[Len(calls)]>>

\* C7: association set convergence. After a successful present run that
\* declares instance groups, the inventory is linked to exactly the declared
\* identifiers; the run unlinked the current identifiers that are not
\* declared, linked the declared ones that were not current, and neither
\* unlinked nor linked the identifiers that are both.
C7_AssociationsConverge ==
    (pc = "done" /\ params.state = "present" /\ params.instance_groups # None)
    => /\ Target(remote) # {}
       /\ \A r \in Target(remote) :
              r.related_instance_groups = DeclaredGroupIds
       /\ Removed = CurrentGroups \ DeclaredGroupIds
       /\ Added = DeclaredGroupIds \ CurrentGroups

C7_Witness ==
    /\ pc = "done"
    /\ params.state = "present"
    /\ params.instance_groups # None
    /\ Removed # {}
    /\ Added # {}
    /\ CurrentGroups \cap DeclaredGroupIds # {}

\* C8: end-to-end create. With name Foo, organization Bar, state present,
\* kind "" and nothing else supplied, and no such inventory, the run issues
\* exactly one create, carrying exactly name, organization and kind.
C8_CreateCarriesThreeFields ==
    (pc = "done" /\ runs = 1 /\ params = NoParams /\ Target(before) = {})
    => /\ Len(SelectSeq(calls, IsCreate)) = 1
       /\ \A i \in 1..Len(calls) :
              IsCreate(calls[i]) =>
                  calls[i].fields =
                      [name |-> "Foo", organization |-> 1, kind |-> ""]

\* C9: kind is immutable. No run issues an update that carries a kind,
\* an update carrying only the fields whose value changes.
C9_KindNeverUpdated ==
    \A i \in 1..Len(calls) :
        calls[i].op = "update" => "kind" \notin DOMAIN calls[i].fields

\* C10: clone collision. When copy_from is supplied and the target name
\* exists in the declared organization, the run stops at the copy step with
\* a collision failure, issues no mutating call and leaves every inventory
\* as it was.
C10_CloneCollisionFails ==
    (runs >= 1 /\ Truthy(params.copy_from) /\ Target(before) # {})
    => /\ pc \in {"resolve_org", "get_one", "copy_item", "failed"}
       /\ pc = "failed" => error = "collision"
       /\ Mutations = <<>>
       /\ remote = before

C10_Witness ==
    /\ pc = "failed"
    /\ error = "collision"
    /\ Truthy(params.copy_from)
    /\ Target(before) # {}

----------------------------------------------------------------------------
(* Vocabulary of the later properties *)

\* identifier of the declared organization (0 when it has no match)
DeclaredOrg == resolve_name_to_id("organizations", params.organization)

\* every declared credential and instance group has a match
ReferencesResolve ==
    /\ params.insights_credential # None =>
           resolve_name_to_id("credentials",
                              Val(params.insights_credential)) # 0
    /\ params.instance_groups # None =>
           \A i \in 1..Len(Val(params.instance_groups)) :
               resolve_name_to_id("instance_groups",
                                  Val(params.instance_groups)[i]) # 0

\* a present run with copy_from whose target does not exist yet
CloneRun ==
    /\ runs >= 1
    /\ Truthy(params.copy_from)
    /\ params.state = "present"
    /\ DeclaredOrg # 0
    /\ Target(before) = {}

\* the target exists and holds every declared field
DeclaredFieldsApplied ==
    /\ Target(remote) # {}
    /\ \A r \in Target(remote) :
           /\ r.kind = params.kind
           /\ r.organization = DeclaredOrg
           /\ params.description # None =>
                  r.description = Val(params.description)
           /\ params.variables # None =>
                  r.variables = json_dumps(Val(params.variables))
           /\ params.host_filter # None =>
                  r.host_filter = params.host_filter
           /\ params.insights_credential # None =>
                  r.insights_credential =
                      resolve_name_to_id("credentials",
                                         Val(params.insights_credential))

IsFieldWrite(c) == c.op \in {"create", "update"}

IsFailedResolve(c) == c.op = "resolve" /\ c.id = 0

\* the target exists with kind "", the desired kind is "smart", no copy is
\* asked for and a declared reference has no match
ConflictAndUnresolved ==
    /\ runs >= 1
    /\ params.state = "present"
    /\ ~Truthy(params.copy_from)
    /\ params.kind = "smart"
    /\ \E r \in Target(before) : r.kind = ""
    /\ ~ReferencesResolve

----------------------------------------------------------------------------
(* Later properties *)

C13_ScopedLookup ==
    /\ \A i \in 1..Len(calls) :
           (calls[i].op = "get_one" /\ calls[i].name = params.name)
           => calls[i].organization = DeclaredOrg
    /\ runs >= 1 =>
           \A b \in before :
               (b.name = params.name /\ b.organization # DeclaredOrg)
               => /\ b \in remote
                  /\ inventory.id # b.id
                  /\ \A i \in 1..Len(calls) :
                         calls[i].op \in {"update", "delete", "associate",
                                          "disassociate"}
                         => calls[i].id # b.id

C13_Witness ==
    /\ pc = "done"
    /\ params.organization = "Bar"
    /\ Target(before) # {}
    /\ Namesake \in before
    /\ Namesake \in remote
    /\ \E i \in 1..Len(calls) : calls[i].op = "update"

\* C14: minimal update. In a present run on an existing inventory whose
\* links already are the declared instance groups, an update is issued only
\* if the value of at least one field of the inventory differs from the
\* target value: the instance groups alone cause none.
C14_UpdateOnlyOnChange ==
    (/\ params.state = "present"
     /\ inventory # NoItem
     /\ params.instance_groups # None => DeclaredGroupIds = CurrentGroups)
    => \A i \in 1..Len(calls) :
           calls[i].op = "update" =>
               \E k \in DOMAIN inventory_fields \cap ItemFieldNames :
                   inventory[k] # inventory_fields[k]

\* C15: no implicit rename. Once inventory_fields is built its name entry is
\* the name of the current inventory when there is one (found by name, found
\* by identifier, or cloned) and the declared name otherwise; no update
\* carries a name and every inventory keeps the name it had.
C15_NoImplicitRename ==
    /\ DOMAIN inventory_fields # {} =>
           inventory_fields["name"] =
               IF inventory # NoItem THEN inventory.name ELSE params.name
    /\ \A i \in 1..Len(calls) :
           /\ calls[i].op = "update" => "name" \notin DOMAIN calls[i].fields
           /\ calls[i].op = "create" => calls[i].fields["name"] = params.name
    /\ \A b \in before : \A r \in remote : b.id = r.id => r.name = b.name

C15_Witness ==
    /\ pc = "done"
    /\ params.name = "3"
    /\ inventory # NoItem
    /\ inventory.name = "Foo"
    /\ \E i \in 1..Len(calls) : calls[i].op = "update"

\* positions of the calls of the current run that failed
Failures == {i \in 1..Len(calls) : ~calls[i].ok}

\* the most calls one run makes: the organization, the lookup, the template
\* lookup and the copy, the credential, two instance groups resolved twice,
\* and the requests of create_or_update_if_needed
CallBound == 9 + MaxRequests

\* what holds of the calls of a run at every moment
NoCallAfterFailure ==
    /\ Len(calls) <= CallBound
    /\ \A i \in Failures : i = Len(calls)
    /\ Failures # {} => pc = "failed"

\* C18: termination without retry. Every run that has started ends, done
\* or failed, after at most CallBound remote calls; a call that failed is
\* the last call of its run, so none is issued again or after it, and the
\* run has failed as soon as the call has.
C18_TerminatesWithoutRetry ==
    /\ []NoCallAfterFailure
    /\ (pc = "resolve_org") ~> Finished

\* a run whose update went through and whose association request failed
C18_Witness ==
    /\ pc = "failed"
    /\ Len(calls) >= 2
    /\ calls[Len(calls)].op = "associate"
    /\ ~calls[Len(calls)].ok
    /\ \E i \in 1..(Len(calls) - 1) : calls[i].op = "update" /\ calls[i].ok

C17_NotProvidedVersusEmpty ==
    (pc \in {"check_kind", "create_or_update", "done"}
     /\ params.state = "present")
    => /\ params.instance_groups = None =>
              /\ DOMAIN association_fields = {}
              /\ pc = "done" =>
                     /\ Added = {} /\ Removed = {}
                     /\ \A r \in Target(remote) :
                            r.related_instance_groups = CurrentGroups
       /\ params.instance_groups = Some(<<>>) =>
              /\ DOMAIN association_fields = {"instance_groups"}
              /\ Len(association_fields["instance_groups"]) = 0
              /\ pc = "done" =>
                     /\ Added = {} /\ Removed = CurrentGroups
                     /\ \A r \in Target(remote) :
                            r.related_instance_groups = {}

C17_Witness ==
    /\ pc = "done"
    /\ params.state = "present"
    /\ params.instance_groups = Some(<<>>)
    /\ CurrentGroups # {}
    /\ Removed = CurrentGroups

====
